---- MODULE Spec2Model ----
(***************************************************************************)
(* Submission lifecycle and grading dispatch of the course-management      *)
(* backend: the submission store (submission.models.go), the assignment    *)
(* store with its roster (assignment.models.go), the Submit call with its  *)
(* compensating delete, the grading callbacks and the role-filtered views. *)
(*                                                                         *)
(* The document store is modelled as two keyed collections with atomic     *)
(* single-document operations; each store operation may fail (the driver   *)
(* returns an error) and then changes nothing.                             *)
(***************************************************************************)
EXTENDS Integers, Sequences, FiniteSets, TLC

\* ------------------------------------------------------------------ bounds
NumUsers == 2
MaxAssignments == 2
MaxSubmissions == 2
NumProcs == 2
MaxLimit == 2
MaxRoster == 3
MaxAttempt == 4

\* --------------------------------------------------------- program constants
StatusOKMin == 200
StatusOKMax == 300

Users == 1..NumUsers
AsgIds == 1..MaxAssignments
SubIds == 1..MaxSubmissions
Procs == 1..NumProcs
Roles == {"student", "teacher"}

\* errors.APIError values; a nil error is "nil"
NoErr == "nil"

VARIABLES
    subs,        \* the "submissions" collection: _id -> MongoSubmission
    asgs,        \* the "assignments" collection: _id -> MongoAssignment
    pc,          \* per request: where its submit sequence stands
    loc,         \* per request: the locals of its submit sequence
    nextSid,     \* primitive.NewObjectID() for submissions: the next fresh id
    nextAid,     \* primitive.NewObjectID() for assignments: the next fresh id
    now,         \* time.Now() in milliseconds
    dispatched,  \* submission ids the grading service answered with a job
    sent,        \* per submission id: requests sent to the grading service
    ret          \* the call and the return value of the last single-call operation

vars == <<subs, asgs, pc, loc, nextSid, nextAid, now, dispatched, sent, ret>>

\* ------------------------------------------------------------- data types

\* []WorkerResult: nil (BSON null) or a list
NullResults == [isNull |-> TRUE, items |-> <<>>]
Res(items) == [isNull |-> FALSE, items |-> items]

WorkerResult(id, studentFacing) ==
    [id |-> id, studentFacing |-> studentFacing, passed |-> TRUE, name |-> id]

Test(name, studentFacing) ==
    [name |-> name, studentFacing |-> studentFacing]

AssignmentSubmission(uid, sid, attempt) ==
    [userID |-> uid, submissionID |-> sid, attemptNumber |-> attempt]

\* the results a grading callback may carry
GradeInputs ==
    { NullResults,
      Res(<<WorkerResult(1, FALSE)>>),
      Res(<<WorkerResult(1, TRUE), WorkerResult(2, FALSE)>>) }

\* test lists of the create and update forms
TestLists ==
    { <<Test("t1", TRUE), Test("t2", FALSE)>>,
      <<Test("t2", FALSE)>> }

Range(s) == { s[i] : i \in DOMAIN s }

Remove(col, id) == [k \in DOMAIN col \ {id} |-> col[k]]

NoRet == [op |-> "none"]

\* ------------------------------------------------- submission store (pure)

\* an update that appends the results to the stored ones ($push for $set)
UpdateGradePush(col, sid, results, dbOk) ==
    IF ~dbOk THEN [col |-> col, err |-> "ErrorDatabaseFailedUpdate"]
    ELSE IF sid \notin DOMAIN col THEN [col |-> col, err |-> NoErr]
    ELSE [col |-> [col EXCEPT ![sid].results = Res(@.items \o results.items),
                              ![sid].inProgress = FALSE],
          err |-> NoErr]

\* an update that inserts the document when no stored one matches (upsert)
UpdateGradeUpsert(col, sid, results, dbOk) ==
    IF ~dbOk THEN [col |-> col, err |-> "ErrorDatabaseFailedUpdate"]
    ELSE IF sid \notin DOMAIN col
    THEN [col |-> col @@ (sid :> [id |-> sid, userID |-> 0, fileID |-> 0,
                                  assignmentID |-> 0, attemptNumber |-> 0,
                                  submissionDate |-> 0, file |-> "",
                                  errorTesting |-> FALSE, results |-> results,
                                  inProgress |-> FALSE]),
          err |-> NoErr]
    ELSE [col |-> [col EXCEPT ![sid].results = results, ![sid].inProgress = FALSE],
          err |-> NoErr]

\* UpdateOne({_id: sid}, {$set: {results, inProgress: false}})
UpdateGrade(col, sid, results, dbOk) ==
    IF ~dbOk THEN [col |-> col, err |-> "ErrorDatabaseFailedUpdate"]
    ELSE IF sid \notin DOMAIN col THEN [col |-> col, err |-> NoErr]
    ELSE [col |-> [col EXCEPT ![sid].results = results, ![sid].inProgress = FALSE],
          err |-> NoErr]

\* an update that flags the error and sets inProgress instead of clearing it
UpdateErrorRestart(col, sid, dbOk) ==
    IF ~dbOk THEN [col |-> col, err |-> "ErrorDatabaseFailedUpdate"]
    ELSE IF sid \notin DOMAIN col THEN [col |-> col, err |-> NoErr]
    ELSE [col |-> [col EXCEPT ![sid].errorTesting = TRUE, ![sid].inProgress = TRUE],
          err |-> NoErr]

\* UpdateOne({_id: sid}, {$set: {errorTesting: true, inProgress: false}})
UpdateError(col, sid, dbOk) ==
    IF ~dbOk THEN [col |-> col, err |-> "ErrorDatabaseFailedUpdate"]
    ELSE IF sid \notin DOMAIN col THEN [col |-> col, err |-> NoErr]
    ELSE [col |-> [col EXCEPT ![sid].errorTesting = TRUE, ![sid].inProgress = FALSE],
          err |-> NoErr]

\* a delete that reports an id it did not find
DeleteStrict(col, sid, dbOk) ==
    IF ~dbOk THEN [col |-> col, err |-> "ErrorDatabaseFailedDelete"]
    ELSE IF sid \notin DOMAIN col THEN [col |-> col, err |-> "ErrorResourceNotFound"]
    ELSE [col |-> Remove(col, sid), err |-> NoErr]

\* DeleteOne({_id: sid})
Delete(col, sid, dbOk) ==
    IF ~dbOk THEN [col |-> col, err |-> "ErrorDatabaseFailedDelete"]
    ELSE [col |-> Remove(col, sid), err |-> NoErr]

\* a DeleteMany whose filter is empty
DeleteByAssignmentIDAll(col, aid, dbOk) ==
    IF ~dbOk THEN [col |-> col, err |-> "ErrorDatabaseFailedDelete"]
    ELSE [col |-> <<>>, err |-> NoErr]

\* DeleteMany({assignmentID: aid})
DeleteByAssignmentID(col, aid, dbOk) ==
    IF ~dbOk THEN [col |-> col, err |-> "ErrorDatabaseFailedDelete"]
    ELSE [col |-> [k \in { s \in DOMAIN col : col[s].assignmentID # aid } |-> col[k]],
          err |-> NoErr]

\* the results handed back as they are stored
StudentResultsAll(results) == results

\* the student filter of Get: the results with studentFacing set, in order
StudentResults(results) ==
    IF results.isNull THEN Res(<<>>)
    ELSE Res(SelectSeq(results.items, LAMBDA r : r.studentFacing))

\* FindOne({_id: sid}) and Decode; val is {} for a nil pointer
Get(col, sid, role, dbOk) ==
    IF ~dbOk \/ sid \notin DOMAIN col THEN [val |-> {}, err |-> "ErrorInvalidBSON"]
    ELSE IF role = "student"
         THEN [val |-> {[col[sid] EXCEPT !.results = StudentResults(@)]}, err |-> NoErr]
         ELSE [val |-> {col[sid]}, err |-> NoErr]

\* FindOne({_id: sid, userID: uid}); the decode error is dropped
GetUsersSubmission(col, sid, uid, dbOk) ==
    IF ~dbOk \/ sid \notin DOMAIN col \/ col[sid].userID # uid
    THEN [val |-> {}, err |-> "ErrorResourceNotFound"]
    ELSE [val |-> {col[sid]}, err |-> NoErr]

\* Find({userID: uid}); a failed Find leaves a nil cursor, and cur.Next panics
GetUsersSubmissions(col, uid, dbOk) ==
    IF ~dbOk THEN [val |-> {}, err |-> "panic"]
    ELSE [val |-> { col[s] : s \in { k \in DOMAIN col : col[k].userID = uid } },
          err |-> NoErr]

\* ------------------------------------------------- assignment store (pure)

\* forms.CreateAssignmentPostForm values
CreateForms ==
    { [language |-> "go", version |-> "1", name |-> "hw", numAttempts |-> Len(t),
       description |-> "d", dueDate |-> 1, testBuildCMD |-> "make", tests |-> t]
      : t \in TestLists }

\* the MongoAssignment values handed to Update: any id, either publication
\* flag, and an identifier-independent supportingFiles and roster of their own
UpdateInputs ==
    { [id |-> a, language |-> f.language, version |-> f.version, name |-> f.name,
       numAttempts |-> f.numAttempts, description |-> f.description,
       supportingFiles |-> 0, dueDate |-> f.dueDate, published |-> pb,
       testBuildCMD |-> f.testBuildCMD, tests |-> f.tests, submissions |-> <<>>]
      : a \in AsgIds, f \in CreateForms, pb \in BOOLEAN }

\* InsertOne of a new MongoAssignment: unpublished, with an empty roster
Create(col, form, aid, supportingFiles, dbOk) ==
    IF ~dbOk \/ aid \in DOMAIN col
    THEN [col |-> col, err |-> "ErrorDatabaseFailedCreate"]
    ELSE [col |-> col @@ (aid :>
                  [id |-> aid,
                   language |-> form.language,
                   version |-> form.version,
                   name |-> form.name,
                   numAttempts |-> form.numAttempts,
                   description |-> form.description,
                   supportingFiles |-> supportingFiles,
                   dueDate |-> form.dueDate,
                   published |-> FALSE,
                   testBuildCMD |-> form.testBuildCMD,
                   tests |-> form.tests,
                   submissions |-> <<>>]),
          err |-> NoErr]

\* DeleteOne({_id: aid})
AssignmentDelete(col, aid, dbOk) ==
    IF ~dbOk THEN [col |-> col, err |-> "ErrorDatabaseFailedDelete"]
    ELSE [col |-> Remove(col, aid), err |-> NoErr]

\* FindOne({_id: aid}) and Decode
AssignmentGet(col, aid, dbOk) ==
    IF ~dbOk \/ aid \notin DOMAIN col THEN [val |-> {}, err |-> "ErrorInvalidBSON"]
    ELSE [val |-> {col[aid]}, err |-> NoErr]

\* an update that replaces the stored document by the supplied record
UpdateReplace(col, assign, dbOk) ==
    IF ~dbOk THEN [col |-> col, err |-> "ErrorDatabaseFailedUpdate"]
    ELSE IF assign.id \notin DOMAIN col THEN [col |-> col, err |-> NoErr]
    ELSE [col |-> [col EXCEPT ![assign.id] = assign], err |-> NoErr]

\* UpdateOne({_id: assign.ID}, {$set: the nine whitelisted fields})
Update(col, assign, dbOk) ==
    IF ~dbOk THEN [col |-> col, err |-> "ErrorDatabaseFailedUpdate"]
    ELSE IF assign.id \notin DOMAIN col THEN [col |-> col, err |-> NoErr]
    ELSE [col |-> [col EXCEPT ![assign.id].language = assign.language,
                              ![assign.id].version = assign.version,
                              ![assign.id].name = assign.name,
                              ![assign.id].description = assign.description,
                              ![assign.id].dueDate = assign.dueDate,
                              ![assign.id].published = assign.published,
                              ![assign.id].testBuildCMD = assign.testBuildCMD,
                              ![assign.id].tests = assign.tests,
                              ![assign.id].numAttempts = assign.numAttempts],
          err |-> NoErr]

\* a loop that keeps the attempt of the user's last entry
RECURSIVE LatestLoopLast(_, _, _)
LatestLoopLast(roster, uid, attempt) ==
    IF roster = <<>> THEN attempt
    ELSE LatestLoopLast(Tail(roster), uid,
                        IF Head(roster).userID = uid
                        THEN Head(roster).attemptNumber
                        ELSE attempt)

\* the loop of LatestUserSubmission over the roster
RECURSIVE LatestLoop(_, _, _)
LatestLoop(roster, uid, attempt) ==
    IF roster = <<>> THEN attempt
    ELSE LatestLoop(Tail(roster), uid,
                    IF Head(roster).userID = uid /\ Head(roster).attemptNumber > attempt
                    THEN Head(roster).attemptNumber
                    ELSE attempt)

LatestUserSubmission(col, aid, uid, dbOk) ==
    LET g == AssignmentGet(col, aid, dbOk) IN
    IF g.err # NoErr THEN [val |-> {}, attempt |-> 0, err |-> g.err]
    ELSE [val |-> g.val,
          attempt |-> LatestLoop(col[aid].submissions, uid, 0),
          err |-> NoErr]

\* UpdateOne({_id: aid}, {$push: {submissions: insert}})
InsertSubmission(col, aid, uid, sid, attempt, dbOk) ==
    IF ~dbOk THEN [col |-> col, err |-> "ErrorDatabaseFailedUpdate"]
    ELSE IF aid \notin DOMAIN col THEN [col |-> col, err |-> NoErr]
    ELSE [col |-> [col EXCEPT ![aid].submissions =
                        Append(@, AssignmentSubmission(uid, sid, attempt))],
          err |-> NoErr]

\* UpdateOne({_id: aid}, {$pull: {submissions: {submissionID: sid}}})
DeleteSubmission(col, aid, sid, dbOk) ==
    IF ~dbOk THEN [col |-> col, err |-> "ErrorDatabaseFailedUpdate"]
    ELSE IF aid \notin DOMAIN col THEN [col |-> col, err |-> NoErr]
    ELSE [col |-> [col EXCEPT ![aid].submissions =
                        SelectSeq(@, LAMBDA e : e.submissionID # sid)],
          err |-> NoErr]

\* ------------------------------------------------------------------ Submit

\* the MongoSubmission Submit builds: in progress, no results, no error flag
NewSubmission(aid, fid, uid, sid, attempt, filename, date) ==
    [id |-> sid,
     userID |-> uid,
     fileID |-> fid,
     assignmentID |-> aid,
     attemptNumber |-> attempt,
     submissionDate |-> date,
     file |-> filename,
     errorTesting |-> FALSE,
     results |-> NullResults,
     inProgress |-> TRUE]

\* InsertOne(&submission)
InsertOne(col, doc, dbOk) ==
    IF ~dbOk \/ doc.id \in DOMAIN col
    THEN [col |-> col, err |-> "ErrorDatabaseFailedCreate"]
    ELSE [col |-> col @@ (doc.id :> doc), err |-> NoErr]

\* what json.Marshal and client.Do can come back with
NoResp == [kind |-> "none", status |-> 0, body |-> "none"]
StatusCodes == {StatusOKMin - 1, StatusOKMin, StatusOKMax - 1, StatusOKMax}
Bodies == {"job", "nojob", "malformed"}
Responses ==
    { [kind |-> "marshalFail", status |-> 0, body |-> "none"],
      [kind |-> "transportFail", status |-> 0, body |-> "none"] }
    \cup { [kind |-> "response", status |-> st, body |-> b] :
             st \in StatusCodes, b \in Bodies }

\* a status check that lets the upper limit through
StatusOutOfRangeInclusive(status) == status < StatusOKMin \/ status > StatusOKMax

\* resp.StatusCode < 200 || resp.StatusCode >= 300
StatusOutOfRange(status) == status < StatusOKMin \/ status >= StatusOKMax

\* the grading service accepted the job: a 2xx answer carrying a job handle
Accepted(resp) ==
    resp.kind = "response" /\ ~StatusOutOfRange(resp.status) /\ resp.body = "job"

\* a Submit that does not look at the status of the answer
SubmitOutcomeAnyStatus(resp) ==
    IF resp.kind = "marshalFail"
    THEN [delete |-> TRUE, err |-> "ErrorInvalidJSON", job |-> "", panic |-> FALSE]
    ELSE IF resp.kind = "transportFail"
    THEN [delete |-> TRUE, err |-> "ErrorUnableToReachMicroService", job |-> "",
          panic |-> FALSE]
    ELSE IF resp.body = "job"
    THEN [delete |-> FALSE, err |-> NoErr, job |-> "job", panic |-> FALSE]
    ELSE [delete |-> FALSE, err |-> NoErr, job |-> "", panic |-> TRUE]

\* Submit after the insert: which branch it takes on what came back.
\* delete: whether s.Delete(sid) is called; a missing job makes the
\* unchecked type assertion data["job"].(string) panic.
SubmitOutcome(resp) ==
    IF resp.kind = "marshalFail"
    THEN [delete |-> TRUE, err |-> "ErrorInvalidJSON", job |-> "", panic |-> FALSE]
    ELSE IF resp.kind = "transportFail"
    THEN [delete |-> TRUE, err |-> "ErrorUnableToReachMicroService", job |-> "",
          panic |-> FALSE]
    ELSE IF StatusOutOfRange(resp.status)
    THEN [delete |-> TRUE, err |-> "ErrorUnableToCreateJob", job |-> "", panic |-> FALSE]
    ELSE IF resp.body = "job"
    THEN [delete |-> FALSE, err |-> NoErr, job |-> "job", panic |-> FALSE]
    ELSE [delete |-> FALSE, err |-> NoErr, job |-> "", panic |-> TRUE]

DispatchErrors ==
    {"ErrorInvalidJSON", "ErrorUnableToReachMicroService", "ErrorUnableToCreateJob"}

\* ------------------------------------------------------------------- views

\* $sort: every order of the documents of S that is sorted by submissionDate
\* (ascending, or descending); documents with equal dates come in any order
SortedByDate(S, ascending) ==
    { q \in [1..Cardinality(S) -> S] :
        /\ \A i, j \in DOMAIN q : i # j => q[i] # q[j]
        /\ \A i, j \in DOMAIN q :
             i < j => IF ascending
                      THEN q[i].submissionDate <= q[j].submissionDate
                      ELSE q[i].submissionDate >= q[j].submissionDate }

\* $limit
Limit(q, limit) == SubSeq(q, 1, IF Len(q) < limit THEN Len(q) ELSE limit)

\* the tests projected as they are stored
StudentTestsUnfiltered(tests) == tests

\* {$filter: {input: "$tests", cond: "$$test.studentFacing"}}
StudentTests(tests) == SelectSeq(tests, LAMBDA t : t.studentFacing)

\* the student $project of GetFull: the joined submissions of the requester
\* and the student-facing tests
StudentProject(a, joined, uid) ==
    [id |-> a.id, language |-> a.language, version |-> a.version, name |-> a.name,
     numAttempts |-> a.numAttempts, description |-> a.description,
     supportingFiles |-> a.supportingFiles, dueDate |-> a.dueDate,
     published |-> a.published, testBuildCMD |-> a.testBuildCMD,
     tests |-> StudentTests(a.tests),
     submissions |-> { d \in joined : d.userID = uid }]

\* the $project of GetFull for every other role
TeacherProject(a, groups) ==
    [id |-> a.id, language |-> a.language, version |-> a.version, name |-> a.name,
     numAttempts |-> a.numAttempts, description |-> a.description,
     supportingFiles |-> a.supportingFiles, dueDate |-> a.dueDate,
     published |-> a.published, testBuildCMD |-> a.testBuildCMD,
     tests |-> a.tests,
     studentSubmissions |-> groups]

\* the student pipeline without its last stage
PublishedGateOpen(doc) == {doc}

\* the last stage of the student pipeline: {$match: {published: true}}
PublishedGate(doc) == IF doc.published = TRUE THEN {doc} ELSE {}

\* the users-collection join, projected to email, firstName, lastName
Profile(uid) == [email |-> uid, firstName |-> uid, lastName |-> uid]

\* the $lookup pipeline of the non-student branch: the assignment's submissions
\* sorted by date, grouped per user, joined to the user's profile. Each value
\* is one possible array (as a set: $group emits its groups in no set order).
StudentSubmissions(subCol, aid) ==
    LET mine == { subCol[k] : k \in { s \in DOMAIN subCol : subCol[s].assignmentID = aid } }
        owners == { d.userID : d \in mine }
        of(u) == { d \in mine : d.userID = u }
        orders == UNION { SortedByDate(of(u), TRUE) : u \in owners }
    IN  { { [submissions |-> f[u], student |-> Profile(u)] : u \in owners } :
          f \in { g \in [owners -> orders] : \A u \in owners : g[u] \in SortedByDate(of(u), TRUE) } }

\* GetFull: the set of values the aggregation can return
GetFull(asgCol, subCol, aid, uid, role, dbOk) ==
    IF ~dbOk THEN { [val |-> {}, err |-> "ErrorInvalidBSON"] }
    ELSE IF aid \notin DOMAIN asgCol THEN { [val |-> {}, err |-> NoErr] }
    ELSE LET a == asgCol[aid] IN
         IF role = "student"
         THEN LET ids == { a.submissions[i].submissionID : i \in DOMAIN a.submissions }
                  joined == { subCol[k] : k \in (DOMAIN subCol) \cap ids }
              IN  { [val |-> PublishedGate(StudentProject(a, joined, uid)), err |-> NoErr] }
         ELSE { [val |-> {TeacherProject(a, g)}, err |-> NoErr] :
                g \in StudentSubmissions(subCol, aid) }

\* the $project of GetUsersRecentSubmissions, after the assignment $lookup
\* (tests, submissions and testBuildCMD projected away; the course join is
\* not modelled). A null results stays null under $filter.
RecentProject(d, asgCol) ==
    [id |-> d.id,
     assignmentID |-> d.assignmentID,
     submissionDate |-> d.submissionDate,
     file |-> d.file,
     errorTesting |-> d.errorTesting,
     results |-> IF d.results.isNull THEN NullResults ELSE StudentResults(d.results),
     attemptNumber |-> d.attemptNumber,
     inProgress |-> d.inProgress,
     assignment |-> IF d.assignmentID \in DOMAIN asgCol
                    THEN {[id |-> d.assignmentID,
                           language |-> asgCol[d.assignmentID].language,
                           version |-> asgCol[d.assignmentID].version,
                           name |-> asgCol[d.assignmentID].name,
                           numAttempts |-> asgCol[d.assignmentID].numAttempts,
                           description |-> asgCol[d.assignmentID].description,
                           dueDate |-> asgCol[d.assignmentID].dueDate,
                           published |-> asgCol[d.assignmentID].published,
                           supportingFiles |-> asgCol[d.assignmentID].supportingFiles]}
                    ELSE {}]

\* {$match: {$expr: {$eq: ["$assignment.published", true]}}}
ParentPublished(d) == \E a \in d.assignment : a.published = TRUE

\* the tail of the pipeline: $sort, then $limit, then the published $match
RecentPipeline(docs, limit) ==
    { SelectSeq(Limit(q, limit), ParentPublished) : q \in SortedByDate(docs, FALSE) }

\* GetUsersRecentSubmissions: the set of values the aggregation can return
GetUsersRecentSubmissions(subCol, asgCol, uid, limit, dbOk) ==
    IF ~dbOk \/ limit <= 0 THEN { [val |-> <<>>, err |-> "ErrorInvalidBSON"] }
    ELSE LET docs == { RecentProject(subCol[k], asgCol) :
                       k \in { s \in DOMAIN subCol : subCol[s].userID = uid } }
         IN  { [val |-> q, err |-> NoErr] : q \in RecentPipeline(docs, limit) }

\* ------------------------------------------------------------ specification

NoLoc ==
    [aid |-> 0, uid |-> 0, sid |-> 0, attempt |-> 0, resp |-> NoResp,
     job |-> "", err |-> NoErr]

Init ==
    /\ subs = <<>>
    /\ asgs = <<>>
    /\ pc = [p \in Procs |-> "idle"]
    /\ loc = [p \in Procs |-> NoLoc]
    /\ nextSid = 1
    /\ nextAid = 1
    /\ now = 0
    /\ dispatched = {}
    /\ sent = [s \in SubIds |-> 0]
    /\ ret = NoRet

\* Every action takes what the environment decides as parameters: dbOk is
\* whether the store carries out the operation (FALSE: the driver returns an
\* error), resp is what the grading service and the transport come back with.

\* ---- the submit sequence of one request (lifecycle controller, then Submit)

\* steps 1 and 2 of submit: attempt = latestAttempt + 1, checked against the
\* assignment's cap, and a fresh submission id
StartSubmit(p, aid, uid, dbOk) ==
    /\ pc[p] = "idle"
    /\ nextSid <= MaxSubmissions
    /\ LET l == LatestUserSubmission(asgs, aid, uid, dbOk) IN
         IF l.err # NoErr
         THEN /\ ret' = [op |-> "submit", err |-> l.err]
              /\ UNCHANGED <<pc, loc, nextSid>>
         ELSE IF l.attempt + 1 > asgs[aid].numAttempts
         THEN /\ ret' = [op |-> "submit", err |-> "AttemptLimitExceeded"]
              /\ UNCHANGED <<pc, loc, nextSid>>
         ELSE /\ pc' = [pc EXCEPT ![p] = "submit"]
              /\ loc' = [loc EXCEPT ![p] = [NoLoc EXCEPT !.aid = aid, !.uid = uid,
                                                         !.sid = nextSid,
                                                         !.attempt = l.attempt + 1]]
              /\ nextSid' = nextSid + 1
              /\ ret' = NoRet
    /\ UNCHANGED <<subs, asgs, nextAid, now, dispatched, sent>>

\* a Submit that goes on to the grading service whatever InsertOne returned
SubmitInsertUnchecked(p, dbOk, tick) ==
    /\ pc[p] = "submit"
    /\ LET doc == NewSubmission(loc[p].aid, loc[p].sid, loc[p].uid, loc[p].sid,
                                loc[p].attempt, "file", now)
           r == InsertOne(subs, doc, dbOk)
       IN  /\ subs' = r.col
           /\ pc' = [pc EXCEPT ![p] = "inserted"]
           /\ UNCHANGED loc
    /\ now' = now + tick
    /\ ret' = NoRet
    /\ UNCHANGED <<asgs, nextSid, nextAid, dispatched, sent>>

\* Submit, lines 268-284: build the record and insert it; tick is the time
\* that passes before the next reading of the clock
SubmitInsert(p, dbOk, tick) ==
    /\ pc[p] = "submit"
    /\ LET doc == NewSubmission(loc[p].aid, loc[p].sid, loc[p].uid, loc[p].sid,
                                loc[p].attempt, "file", now)
           r == InsertOne(subs, doc, dbOk)
       IN  /\ subs' = r.col
           /\ IF r.err # NoErr
              THEN /\ pc' = [pc EXCEPT ![p] = "returned"]
                   /\ loc' = [loc EXCEPT ![p].err = r.err]
              ELSE /\ pc' = [pc EXCEPT ![p] = "inserted"]
                   /\ UNCHANGED loc
    /\ now' = now + tick
    /\ ret' = NoRet
    /\ UNCHANGED <<asgs, nextSid, nextAid, dispatched, sent>>

\* Submit, lines 286-303: marshal the payload and post it
SubmitSend(p, resp) ==
    /\ pc[p] = "inserted"
    /\ loc' = [loc EXCEPT ![p].resp = resp]
    /\ sent' = IF resp.kind = "marshalFail" THEN sent
               ELSE [sent EXCEPT ![loc[p].sid] = @ + 1]
    /\ dispatched' = IF Accepted(resp) THEN dispatched \cup {loc[p].sid}
                     ELSE dispatched
    /\ pc' = [pc EXCEPT ![p] = "sent"]
    /\ ret' = NoRet
    /\ UNCHANGED <<subs, asgs, nextSid, nextAid, now>>

\* Submit, lines 294-321: the compensating delete and the return
SubmitFinish(p, dbOk) ==
    /\ pc[p] = "sent"
    /\ LET o == SubmitOutcome(loc[p].resp) IN
       /\ subs' = IF o.delete THEN Delete(subs, loc[p].sid, dbOk).col ELSE subs
       /\ pc' = [pc EXCEPT ![p] = IF o.panic THEN "panicked" ELSE "returned"]
       /\ loc' = [loc EXCEPT ![p].err = o.err, ![p].job = o.job]
    /\ ret' = NoRet
    /\ UNCHANGED <<asgs, nextSid, nextAid, now, dispatched, sent>>

\* step 4 of submit: on a job handle, append the back-reference
AppendRef(p, dbOk) ==
    /\ pc[p] = "returned"
    /\ loc[p].err = NoErr
    /\ LET r == InsertSubmission(asgs, loc[p].aid, loc[p].uid, loc[p].sid,
                                 loc[p].attempt, dbOk)
       IN  asgs' = r.col
    /\ ret' = NoRet
    /\ pc' = [pc EXCEPT ![p] = "idle"]
    /\ loc' = [loc EXCEPT ![p] = NoLoc]
    /\ UNCHANGED <<subs, nextSid, nextAid, now, dispatched, sent>>

\* step 5 of submit: the dispatcher's error goes to the caller unchanged
Propagate(p) ==
    /\ pc[p] = "returned"
    /\ loc[p].err # NoErr
    /\ ret' = NoRet
    /\ pc' = [pc EXCEPT ![p] = "idle"]
    /\ loc' = [loc EXCEPT ![p] = NoLoc]
    /\ UNCHANGED <<subs, asgs, nextSid, nextAid, now, dispatched, sent>>

\* a panicking request ends; its goroutine's locals are gone
Recover(p) ==
    /\ pc[p] = "panicked"
    /\ ret' = NoRet
    /\ pc' = [pc EXCEPT ![p] = "idle"]
    /\ loc' = [loc EXCEPT ![p] = NoLoc]
    /\ UNCHANGED <<subs, asgs, nextSid, nextAid, now, dispatched, sent>>

\* ---- single calls on the submission store

procVars == <<pc, loc, nextSid>>

\* the id the call directly before this one graded (UpdateGrade without an
\* error), 0 when the call before was anything else
JustGraded ==
    IF ret.op = "UpdateGrade" /\ ret.err = NoErr THEN ret.sid ELSE 0

CallUpdateGrade(sid, results, dbOk) ==
    /\ LET r == UpdateGrade(subs, sid, results, dbOk) IN
       /\ subs' = r.col
       /\ ret' = [op |-> "UpdateGrade", sid |-> sid, dbOk |-> dbOk, err |-> r.err]
    /\ UNCHANGED <<asgs, procVars, nextAid, now, dispatched, sent>>

CallUpdateError(sid, dbOk) ==
    /\ LET r == UpdateError(subs, sid, dbOk) IN
       /\ subs' = r.col
       /\ ret' = [op |-> "UpdateError", sid |-> sid, dbOk |-> dbOk, err |-> r.err,
                  after |-> JustGraded]
    /\ UNCHANGED <<asgs, procVars, nextAid, now, dispatched, sent>>

CallDelete(sid, dbOk) ==
    /\ LET r == Delete(subs, sid, dbOk) IN
       /\ subs' = r.col
       /\ ret' = [op |-> "Delete", sid |-> sid, err |-> r.err]
    /\ UNCHANGED <<asgs, procVars, nextAid, now, dispatched, sent>>

CallDeleteByAssignmentID(aid, dbOk) ==
    /\ LET r == DeleteByAssignmentID(subs, aid, dbOk) IN
       /\ subs' = r.col
       /\ ret' = [op |-> "DeleteByAssignmentID", aid |-> aid, err |-> r.err]
    /\ UNCHANGED <<asgs, procVars, nextAid, now, dispatched, sent>>

CallGet(sid, role, dbOk) ==
    /\ ret' = [op |-> "Get", sid |-> sid, role |-> role, dbOk |-> dbOk,
               out |-> Get(subs, sid, role, dbOk)]
    /\ UNCHANGED <<subs, asgs, procVars, nextAid, now, dispatched, sent>>

CallGetUsersSubmission(sid, uid, dbOk) ==
    /\ ret' = [op |-> "GetUsersSubmission", sid |-> sid, uid |-> uid,
               out |-> GetUsersSubmission(subs, sid, uid, dbOk)]
    /\ UNCHANGED <<subs, asgs, procVars, nextAid, now, dispatched, sent>>

CallGetUsersSubmissions(uid, dbOk) ==
    /\ ret' = [op |-> "GetUsersSubmissions", uid |-> uid,
               out |-> GetUsersSubmissions(subs, uid, dbOk)]
    /\ UNCHANGED <<subs, asgs, procVars, nextAid, now, dispatched, sent>>

CallGetUsersRecentSubmissions(uid, limit, dbOk) ==
    /\ \E o \in GetUsersRecentSubmissions(subs, asgs, uid, limit, dbOk) :
          ret' = [op |-> "GetUsersRecentSubmissions", uid |-> uid, limit |-> limit,
                  dbOk |-> dbOk, out |-> o]
    /\ UNCHANGED <<subs, asgs, procVars, nextAid, now, dispatched, sent>>

\* ---- single calls on the assignment store

CallLatestUserSubmission(aid, uid, dbOk) ==
    /\ ret' = [op |-> "LatestUserSubmission", aid |-> aid, uid |-> uid,
               dbOk |-> dbOk, out |-> LatestUserSubmission(asgs, aid, uid, dbOk)]
    /\ UNCHANGED <<subs, asgs, procVars, nextAid, now, dispatched, sent>>

CallCreate(form, dbOk) ==
    /\ nextAid <= MaxAssignments
    /\ LET r == Create(asgs, form, nextAid, nextAid, dbOk) IN
       /\ asgs' = r.col
       /\ ret' = [op |-> "Create", aid |-> nextAid, err |-> r.err]
    /\ nextAid' = nextAid + 1
    /\ UNCHANGED <<subs, procVars, now, dispatched, sent>>

CallUpdate(assign, dbOk) ==
    /\ LET r == Update(asgs, assign, dbOk) IN
       /\ asgs' = r.col
       /\ ret' = [op |-> "Update", aid |-> assign.id, err |-> r.err]
    /\ UNCHANGED <<subs, procVars, nextAid, now, dispatched, sent>>

CallAssignmentDelete(aid, dbOk) ==
    /\ LET r == AssignmentDelete(asgs, aid, dbOk) IN
       /\ asgs' = r.col
       /\ ret' = [op |-> "AssignmentDelete", aid |-> aid, err |-> r.err]
    /\ UNCHANGED <<subs, procVars, nextAid, now, dispatched, sent>>

CallDeleteSubmission(aid, sid, dbOk) ==
    /\ LET r == DeleteSubmission(asgs, aid, sid, dbOk) IN
       /\ asgs' = r.col
       /\ ret' = [op |-> "DeleteSubmission", aid |-> aid, sid |-> sid, err |-> r.err]
    /\ UNCHANGED <<subs, procVars, nextAid, now, dispatched, sent>>

CallGetFull(aid, uid, role, dbOk) ==
    /\ \E o \in GetFull(asgs, subs, aid, uid, role, dbOk) :
          ret' = [op |-> "GetFull", aid |-> aid, uid |-> uid, role |-> role,
                  dbOk |-> dbOk, out |-> o]
    /\ UNCHANGED <<subs, asgs, procVars, nextAid, now, dispatched, sent>>

\* ---- the specifications: the same actions under the environments the claims
\* are about. Each fixes what it does not study (a store that answers, one
\* request at a time, a clock that ticks) and leaves the rest open.

Serial == {1}
DefaultForm == CHOOSE f \in CreateForms : \E i \in DOMAIN f.tests : f.tests[i].studentFacing
Populated == { r \in GradeInputs : ~r.isNull }
JobAccepted == [kind |-> "response", status |-> StatusOKMin, body |-> "job"]
ServiceUnreachable == [kind |-> "transportFail", status |-> 0, body |-> "none"]

\* Dispatch: one submit at a time against every answer of the grading service
\* and a store whose writes may fail, with the submission reads of other
\* requests in between.
Next ==
    \/ CallCreate(DefaultForm, TRUE)
    \/ \E p \in Serial, aid \in AsgIds, uid \in Users, dbOk \in BOOLEAN :
          StartSubmit(p, aid, uid, dbOk)
    \/ \E p \in Serial, dbOk \in BOOLEAN : SubmitInsert(p, dbOk, 1)
    \/ \E p \in Serial, resp \in Responses : SubmitSend(p, resp)
    \/ \E p \in Serial, dbOk \in BOOLEAN : SubmitFinish(p, dbOk)
    \/ \E p \in Serial, dbOk \in BOOLEAN : AppendRef(p, dbOk)
    \/ \E p \in Serial : Propagate(p)
    \/ \E p \in Serial : Recover(p)
    \/ \E sid \in SubIds, role \in Roles, dbOk \in BOOLEAN : CallGet(sid, role, dbOk)
    \/ \E sid \in SubIds, uid \in Users, dbOk \in BOOLEAN :
          CallGetUsersSubmission(sid, uid, dbOk)
    \/ \E uid \in Users, dbOk \in BOOLEAN : CallGetUsersSubmissions(uid, dbOk)

Spec == Init /\ [][Next]_vars

\* Callbacks: submits of every outcome, then the grading callbacks and
\* deletes in any order, each against a store that may fail.
NextCallbacks ==
    \/ CallCreate(DefaultForm, TRUE)
    \/ \E p \in Serial, uid \in Users : StartSubmit(p, 1, uid, TRUE)
    \/ \E p \in Serial : SubmitInsert(p, TRUE, 1)
    \/ \E p \in Serial, resp \in Responses : SubmitSend(p, resp)
    \/ \E p \in Serial, dbOk \in BOOLEAN : SubmitFinish(p, dbOk)
    \/ \E p \in Serial : AppendRef(p, TRUE)
    \/ \E p \in Serial : Propagate(p)
    \/ \E p \in Serial : Recover(p)
    \/ \E sid \in SubIds, results \in GradeInputs, dbOk \in BOOLEAN :
          CallUpdateGrade(sid, results, dbOk)
    \/ \E sid \in SubIds, dbOk \in BOOLEAN : CallUpdateError(sid, dbOk)
    \/ \E sid \in SubIds, dbOk \in BOOLEAN : CallDelete(sid, dbOk)

SpecCallbacks == Init /\ [][NextCallbacks]_vars

\* Race: the submit sequences of concurrent requests, interleaved step by step.
NextRace ==
    \/ CallCreate(DefaultForm, TRUE)
    \/ \E p \in Procs, aid \in AsgIds, uid \in Users : StartSubmit(p, aid, uid, TRUE)
    \/ \E p \in Procs, dbOk \in BOOLEAN : SubmitInsert(p, dbOk, 1)
    \/ \E p \in Procs, resp \in Responses : SubmitSend(p, resp)
    \/ \E p \in Procs, dbOk \in BOOLEAN : SubmitFinish(p, dbOk)
    \/ \E p \in Procs, dbOk \in BOOLEAN : AppendRef(p, dbOk)
    \/ \E p \in Procs : Propagate(p)
    \/ \E p \in Procs : Recover(p)

SpecRace == Init /\ [][NextRace]_vars

\* Views: assignments created, published and edited, submissions dispatched
\* and graded, and the assignment view asked in every such state.
NextViews ==
    \/ CallCreate(DefaultForm, TRUE)
    \/ \E assign \in UpdateInputs : CallUpdate(assign, TRUE)
    \/ \E p \in Serial, aid \in AsgIds, uid \in Users : StartSubmit(p, aid, uid, TRUE)
    \/ \E p \in Serial : SubmitInsert(p, TRUE, 1)
    \/ \E p \in Serial : SubmitSend(p, JobAccepted)
    \/ \E p \in Serial : SubmitFinish(p, TRUE)
    \/ \E p \in Serial : AppendRef(p, TRUE)
    \/ \E sid \in SubIds, results \in Populated : CallUpdateGrade(sid, results, TRUE)
    \/ \E aid \in AsgIds, uid \in Users, role \in Roles, dbOk \in BOOLEAN :
          CallGetFull(aid, uid, role, dbOk)

SpecViews == Init /\ [][NextViews]_vars

\* Recent: the same, with submissions that may share a timestamp, and the
\* recent-submissions query asked in every such state.
NextRecent ==
    \/ CallCreate(DefaultForm, TRUE)
    \/ \E assign \in { a \in UpdateInputs : a.tests = DefaultForm.tests } :
          CallUpdate(assign, TRUE)
    \/ \E p \in Serial, aid \in AsgIds, uid \in Users : StartSubmit(p, aid, uid, TRUE)
    \/ \E p \in Serial, tick \in {0, 1} : SubmitInsert(p, TRUE, tick)
    \/ \E p \in Serial : SubmitSend(p, JobAccepted)
    \/ \E p \in Serial : SubmitFinish(p, TRUE)
    \/ \E p \in Serial : AppendRef(p, TRUE)
    \/ \E sid \in SubIds, results \in Populated : CallUpdateGrade(sid, results, TRUE)
    \/ \E uid \in Users, limit \in 0..MaxLimit, dbOk \in BOOLEAN :
          CallGetUsersRecentSubmissions(uid, limit, dbOk)

SpecRecent == Init /\ [][NextRecent]_vars

\* Dispatch alone: one user's submits to one assignment, one at a time,
\* against every answer of the grading service, with an insert and a
\* compensating delete that may fail.
NextDispatch ==
    \/ CallCreate(DefaultForm, TRUE)
    \/ \E p \in Serial : StartSubmit(p, 1, 1, TRUE)
    \/ \E p \in Serial, dbOk \in BOOLEAN : SubmitInsert(p, dbOk, 1)
    \/ \E p \in Serial, resp \in Responses : SubmitSend(p, resp)
    \/ \E p \in Serial, dbOk \in BOOLEAN : SubmitFinish(p, dbOk)
    \/ \E p \in Serial : AppendRef(p, TRUE)
    \/ \E p \in Serial : Propagate(p)
    \/ \E p \in Serial : Recover(p)

SpecDispatch == Init /\ [][NextDispatch]_vars

\* Reads: submissions dispatched, graded with every results value and
\* deleted, and Get asked for every id and role, of a store that may fail.
NextReads ==
    \/ CallCreate(DefaultForm, TRUE)
    \/ \E p \in Serial : StartSubmit(p, 1, 1, TRUE)
    \/ \E p \in Serial : SubmitInsert(p, TRUE, 1)
    \/ \E p \in Serial : SubmitSend(p, JobAccepted)
    \/ \E p \in Serial : SubmitFinish(p, TRUE)
    \/ \E p \in Serial : AppendRef(p, TRUE)
    \/ \E sid \in SubIds, results \in GradeInputs : CallUpdateGrade(sid, results, TRUE)
    \/ \E sid \in SubIds : CallDelete(sid, TRUE)
    \/ \E sid \in SubIds, role \in Roles, dbOk \in BOOLEAN : CallGet(sid, role, dbOk)

SpecReads == Init /\ [][NextReads]_vars

\* Store: submissions dispatched, then the grading callbacks, the deletes and
\* the reads of the submission store in any order and number.
NextStore ==
    \/ CallCreate(DefaultForm, TRUE)
    \/ \E p \in Serial : StartSubmit(p, 1, 1, TRUE)
    \/ \E p \in Serial : SubmitInsert(p, TRUE, 1)
    \/ \E p \in Serial : SubmitSend(p, JobAccepted)
    \/ \E p \in Serial : SubmitFinish(p, TRUE)
    \/ \E p \in Serial : AppendRef(p, TRUE)
    \/ \E sid \in SubIds, results \in GradeInputs : CallUpdateGrade(sid, results, TRUE)
    \/ \E sid \in SubIds : CallUpdateError(sid, TRUE)
    \/ \E sid \in SubIds, dbOk \in BOOLEAN : CallDelete(sid, dbOk)
    \/ \E sid \in SubIds : CallGet(sid, "student", TRUE)

SpecStore == Init /\ [][NextStore]_vars

\* Cascade: submissions of several assignments dispatched and graded, and
\* the bulk delete asked for every assignment, of a store that may fail.
NextCascade ==
    \/ CallCreate(DefaultForm, TRUE)
    \/ \E p \in Serial, aid \in AsgIds : StartSubmit(p, aid, 1, TRUE)
    \/ \E p \in Serial : SubmitInsert(p, TRUE, 1)
    \/ \E p \in Serial : SubmitSend(p, JobAccepted)
    \/ \E p \in Serial : SubmitFinish(p, TRUE)
    \/ \E p \in Serial : AppendRef(p, TRUE)
    \/ \E sid \in SubIds : CallUpdateError(sid, TRUE)
    \/ \E aid \in AsgIds, dbOk \in BOOLEAN : CallDeleteByAssignmentID(aid, dbOk)

SpecCascade == Init /\ [][NextCascade]_vars

\* Late callbacks: submits the grading service accepts or that do not reach
\* it and are taken back by the compensating delete, deletes, and the
\* grading callbacks for every id, stored or not, against a store that may
\* fail.
NextLate ==
    \/ CallCreate(DefaultForm, TRUE)
    \/ \E p \in Serial : StartSubmit(p, 1, 1, TRUE)
    \/ \E p \in Serial : SubmitInsert(p, TRUE, 1)
    \/ \E p \in Serial, resp \in {JobAccepted, ServiceUnreachable} : SubmitSend(p, resp)
    \/ \E p \in Serial : SubmitFinish(p, TRUE)
    \/ \E p \in Serial : AppendRef(p, TRUE)
    \/ \E p \in Serial : Propagate(p)
    \/ \E sid \in SubIds, results \in Populated, dbOk \in BOOLEAN :
          CallUpdateGrade(sid, results, dbOk)
    \/ \E sid \in SubIds, dbOk \in BOOLEAN : CallUpdateError(sid, dbOk)
    \/ \E sid \in SubIds : CallDelete(sid, TRUE)

SpecLate == Init /\ [][NextLate]_vars

\* Latest: LatestUserSubmission asked on an assignment whose roster is any
\* list of at most MaxRoster entries of any users with attempt numbers in
\* 1..MaxAttempt.
InitLatest ==
    /\ subs = <<>>
    /\ \E n \in 0..MaxRoster : \E f \in [1..n -> Users \X (1..MaxAttempt)] :
          asgs = [a \in {1} |->
                    [Create(<<>>, DefaultForm, 1, 1, TRUE).col[1]
                        EXCEPT !.submissions =
                            [i \in 1..n |-> AssignmentSubmission(f[i][1], i, f[i][2])]]]
    /\ pc = [p \in Procs |-> "idle"]
    /\ loc = [p \in Procs |-> NoLoc]
    /\ nextSid = 1
    /\ nextAid = 2
    /\ now = 0
    /\ dispatched = {}
    /\ sent = [s \in SubIds |-> 0]
    /\ ret = NoRet

NextLatest ==
    \E aid \in AsgIds, uid \in Users, dbOk \in BOOLEAN :
        CallLatestUserSubmission(aid, uid, dbOk)

SpecLatest == InitLatest /\ [][NextLatest]_vars

\* ------------------------------------------------------------------ claims

\* the three lifecycle states of section 3
InProgressState(d) == d.inProgress /\ d.results.isNull
GradedState(d) == ~d.inProgress /\ ~d.results.isNull /\ d.results.items # <<>>
ErrorState(d) == ~d.inProgress /\ d.errorTesting

StatesOf(d) ==
    (IF InProgressState(d) THEN {"in progress"} ELSE {})
    \cup (IF GradedState(d) THEN {"graded"} ELSE {})
    \cup (IF ErrorState(d) THEN {"error"} ELSE {})

\* C1: whenever Submit has returned one of the three dispatch errors, the
\* store holds no record with the id that call inserted, whatever the
\* compensating Delete came back with.
C1_NoRecordAfterDispatchFailure ==
    \A p \in Procs :
        (pc[p] = "returned" /\ loc[p].err \in DispatchErrors)
            => loc[p].sid \notin DOMAIN subs

\* C2: every stored submission is in exactly one of the states in progress,
\* graded and error.
C2_ExactlyOneState ==
    \A sid \in DOMAIN subs : Cardinality(StatesOf(subs[sid])) = 1

\* C3: no read (Get, GetUsersSubmission, GetUsersSubmissions) returns a
\* submission that is in progress and whose id the grading service has not
\* answered with a job.
C3_ReadsSeeOnlyDispatchedInProgress ==
    ret.op \in {"Get", "GetUsersSubmission", "GetUsersSubmissions"}
        => \A d \in ret.out.val : d.inProgress => d.id \in dispatched

\* C4: once Submit has handled a 2xx answer whose body is malformed or has
\* no job field, it has returned an error and the record is deleted; it has
\* not panicked.
C4_BadBodyIsFailure ==
    \A p \in Procs :
        (/\ pc[p] \in {"returned", "panicked"}
         /\ loc[p].resp.kind = "response"
         /\ ~StatusOutOfRange(loc[p].resp.status)
         /\ loc[p].resp.body # "job")
            => /\ pc[p] = "returned"
               /\ loc[p].err # NoErr
               /\ loc[p].sid \notin DOMAIN subs

\* C5: a GetFull for role student returns joined submissions whose results
\* hold only worker results with studentFacing = true.
C5_StudentSeesOnlyStudentFacingResults ==
    (ret.op = "GetFull" /\ ret.role = "student")
        => \A doc \in ret.out.val : \A d \in doc.submissions :
               \A i \in DOMAIN d.results.items : d.results.items[i].studentFacing

\* the student-facing tests of a stored assignment, in their stored order
FacingTests(aid) == SelectSeq(asgs[aid].tests, LAMBDA t : t.studentFacing = TRUE)

\* the last call was a GetFull on a stored assignment that the store answered
GetFullAnswered ==
    ret.op = "GetFull" /\ ret.dbOk /\ ret.aid \in DOMAIN asgs

\* C6, as the specification states it: for every assignment, GetFull for
\* role student returns exactly the student-facing tests in their stored
\* order, and for any other role the full test list.
C6_EveryAssignment ==
    GetFullAnswered
        => /\ ret.out.err = NoErr
           /\ \E doc \in ret.out.val :
                doc.tests = IF ret.role = "student" THEN FacingTests(ret.aid)
                            ELSE asgs[ret.aid].tests

\* C6, amended: for every published assignment, GetFull for role student
\* returns exactly the student-facing tests in their stored order; whatever
\* the assignment, a student's document never holds a hidden test; for any
\* other role the document holds the full test list.
C6_PublishedAssignment ==
    GetFullAnswered
        => /\ ret.out.err = NoErr
           /\ ret.role = "student"
                => /\ asgs[ret.aid].published
                        => \E doc \in ret.out.val : doc.tests = FacingTests(ret.aid)
                   /\ \A doc \in ret.out.val :
                        \A i \in DOMAIN doc.tests : doc.tests[i].studentFacing
           /\ ret.role # "student"
                => \E doc \in ret.out.val : doc.tests = asgs[ret.aid].tests

\* a student has read a published assignment that has both a student-facing
\* and a hidden test
C6_Witness ==
    /\ GetFullAnswered
    /\ ret.role = "student"
    /\ asgs[ret.aid].published
    /\ FacingTests(ret.aid) # <<>>
    /\ FacingTests(ret.aid) # asgs[ret.aid].tests
    /\ ret.out.val # {}

\* C7: on an assignment with published = false, GetFull for role student
\* returns the empty projection and no error, and GetFull for any other role
\* returns the assignment's data.
C7_UnpublishedHiddenFromStudent ==
    (GetFullAnswered /\ ~asgs[ret.aid].published)
        => /\ ret.out.err = NoErr
           /\ ret.role = "student" => ret.out.val = {}
           /\ ret.role # "student"
                => \E doc \in ret.out.val :
                     /\ ret.out.val = {doc}
                     /\ doc.id = ret.aid
                     /\ doc.name = asgs[ret.aid].name
                     /\ doc.published = FALSE
                     /\ doc.tests = asgs[ret.aid].tests
                     /\ UNION { Range(g.submissions) : g \in doc.studentSubmissions }
                          = { subs[k] : k \in { x \in DOMAIN subs :
                                                   subs[x].assignmentID = ret.aid } }

\* a student has read an unpublished assignment that lists a submission of
\* theirs
C7_Witness ==
    /\ GetFullAnswered
    /\ ret.role = "student"
    /\ ~asgs[ret.aid].published
    /\ \E i \in DOMAIN asgs[ret.aid].submissions :
         asgs[ret.aid].submissions[i].userID = ret.uid
    /\ ret.out.val = {}

\* the user's submissions whose parent assignment is stored and published
Qualifying(uid) ==
    { s \in DOMAIN subs : /\ subs[s].userID = uid
                          /\ subs[s].assignmentID \in DOMAIN asgs
                          /\ asgs[subs[s].assignmentID].published }

\* C8: GetUsersRecentSubmissions(uid, limit) returns exactly min(limit, N)
\* entries, N being the number of the user's submissions with a published
\* parent, and they are the most recent of those, newest first.
C8_RecentReturnsMinLimitN ==
    (ret.op = "GetUsersRecentSubmissions" /\ ret.dbOk /\ ret.limit > 0)
        => LET v == ret.out.val
               Q == Qualifying(ret.uid)
               ids == { v[i].id : i \in DOMAIN v }
           IN  /\ ret.out.err = NoErr
               /\ Len(v) = IF ret.limit < Cardinality(Q) THEN ret.limit
                           ELSE Cardinality(Q)
               /\ Cardinality(ids) = Len(v)
               /\ ids \subseteq Q
               /\ \A i, j \in DOMAIN v :
                    i < j => v[i].submissionDate >= v[j].submissionDate
               /\ \A s \in Q \ ids : \A t \in ids :
                    subs[s].submissionDate <= subs[t].submissionDate

\* C9: in every assignment's roster the attempt numbers of one user strictly
\* increase in the order the entries were appended.
C9_AttemptsStrictlyIncrease ==
    \A aid \in DOMAIN asgs :
        LET r == asgs[aid].submissions IN
        \A i, j \in DOMAIN r :
            (i < j /\ r[i].userID = r[j].userID)
                => r[i].attemptNumber < r[j].attemptNumber

\* C10: when UpdateError(sid) has succeeded directly after a successful
\* UpdateGrade(sid, results), the record is in the error state and in no
\* other lifecycle state.
C10_GradeThenErrorIsErrorOnly ==
    (/\ ret.op = "UpdateError"
     /\ ret.err = NoErr
     /\ ret.after = ret.sid
     /\ ret.sid \in DOMAIN subs)
        => StatesOf(subs[ret.sid]) = {"error"}

\* C11: once Submit has returned after its request, its outcome follows the
\* decision table: a serialization failure gives ErrorInvalidJSON, a
\* transport failure ErrorUnableToReachMicroService, a status outside
\* 200..299 ErrorUnableToCreateJob, each whether or not the compensating
\* delete removed the record; a 2xx answer with a job handle gives the handle
\* and no error, and the record is stored in progress, without error flag
\* and without results.
C11_DecisionTable ==
    \A p \in Procs :
        (pc[p] = "returned" /\ loc[p].resp.kind # "none")
            => LET r == loc[p].resp
                   inRange == r.status \in StatusOKMin..(StatusOKMax - 1)
               IN  /\ r.kind = "marshalFail"
                        => loc[p].err = "ErrorInvalidJSON" /\ loc[p].job = ""
                   /\ r.kind = "transportFail"
                        => /\ loc[p].err = "ErrorUnableToReachMicroService"
                           /\ loc[p].job = ""
                   /\ (r.kind = "response" /\ ~inRange)
                        => loc[p].err = "ErrorUnableToCreateJob" /\ loc[p].job = ""
                   /\ (r.kind = "response" /\ inRange /\ r.body = "job")
                        => /\ loc[p].err = NoErr
                           /\ loc[p].job = "job"
                           /\ loc[p].sid \in DOMAIN subs
                           /\ subs[loc[p].sid].inProgress
                           /\ ~subs[loc[p].sid].errorTesting
                           /\ subs[loc[p].sid].results.isNull

\* Submit has returned ErrorUnableToCreateJob although its compensating
\* delete failed and the record is still stored
C11_Witness ==
    \E p \in Procs :
        /\ pc[p] = "returned"
        /\ loc[p].resp.kind = "response"
        /\ loc[p].err = "ErrorUnableToCreateJob"
        /\ loc[p].sid \in DOMAIN subs

\* C12: a roster changes only when a submit sequence whose Submit returned a
\* job handle appends its own back-reference; no step of Submit, and no
\* failed submit, changes a roster; and every roster entry names a
\* submission id whose dispatch succeeded.
C12_RosterOnlyAfterDispatch ==
    [][ /\ DOMAIN asgs \subseteq DOMAIN asgs'
        /\ \A aid \in DOMAIN asgs :
             asgs'[aid].submissions # asgs[aid].submissions
                => \E p \in Procs :
                     /\ pc[p] = "returned" /\ pc'[p] = "idle"
                     /\ loc[p].err = NoErr /\ loc[p].job # ""
                     /\ loc[p].aid = aid
                     /\ loc[p].sid \in dispatched
                     /\ asgs'[aid].submissions =
                          Append(asgs[aid].submissions,
                                 AssignmentSubmission(loc[p].uid, loc[p].sid,
                                                      loc[p].attempt))
        /\ \A aid \in DOMAIN asgs' : \A i \in DOMAIN asgs'[aid].submissions :
             asgs'[aid].submissions[i].submissionID \in dispatched'
      ]_vars

\* all submits are over: one failed to dispatch and one is on a roster
C12_Witness ==
    /\ \A p \in Procs : pc[p] = "idle"
    /\ \E aid \in DOMAIN asgs : asgs[aid].submissions # <<>>
    /\ \E sid \in 1..(nextSid - 1) : sid \notin dispatched

\* C13: when the store answers and no record has the id, Get reports a
\* not-found outcome: neither a record nor the error it reports for a
\* document that cannot be decoded.
C13_AbsentIsNotFound ==
    (ret.op = "Get" /\ ret.dbOk /\ ret.sid \notin DOMAIN subs)
        => /\ ret.out.val = {}
           /\ ret.out.err \notin {NoErr, "ErrorInvalidBSON"}

\* C14: a Get the store answers on a stored submission leaves the store as
\* it is and returns the record; for role student its results are the stored
\* results with studentFacing = true, in their stored order, and every other
\* field is the stored one; for any other role it is the stored record.
C14_GetFiltersForStudent ==
    [][ (ret'.op = "Get" /\ ret'.dbOk /\ ret'.sid \in DOMAIN subs)
            => LET stored == subs[ret'.sid] IN
               /\ subs' = subs
               /\ ret'.out.err = NoErr
               /\ \E d \in ret'.out.val :
                    /\ ret'.out.val = {d}
                    /\ [d EXCEPT !.results = stored.results] = stored
                    /\ IF ret'.role = "student"
                       THEN d.results.items =
                              SelectSeq(stored.results.items,
                                        LAMBDA r : r.studentFacing = TRUE)
                       ELSE d = stored
      ]_vars

\* a student has read a graded submission that has a student-facing and a
\* hidden result
C14_Witness ==
    /\ ret.op = "Get" /\ ret.dbOk /\ ret.role = "student"
    /\ ret.sid \in DOMAIN subs
    /\ \E i, j \in DOMAIN subs[ret.sid].results.items :
         /\ subs[ret.sid].results.items[i].studentFacing
         /\ ~subs[ret.sid].results.items[j].studentFacing
    /\ ret.out.val # {}

\* the attempt numbers of the roster entries of a user on an assignment
AttemptsOf(aid, uid) ==
    { asgs[aid].submissions[i].attemptNumber :
        i \in { k \in DOMAIN asgs[aid].submissions :
                  asgs[aid].submissions[k].userID = uid } }

\* C15: LatestUserSubmission, answered by the store on a stored assignment,
\* returns 0 when the roster has no entry of the user and otherwise the
\* greatest attempt number among the user's entries, whatever the entries of
\* other users.
C15_LatestIsMaxAttempt ==
    (ret.op = "LatestUserSubmission" /\ ret.dbOk /\ ret.aid \in DOMAIN asgs)
        => LET mine == AttemptsOf(ret.aid, ret.uid) IN
           /\ ret.out.err = NoErr
           /\ ret.out.attempt =
                IF mine = {} THEN 0
                ELSE CHOOSE m \in mine : \A x \in mine : x <= m

\* the user's entries carry the attempts 1, 2 and 4, the greatest not last,
\* and the call returned 4
C15_Witness ==
    /\ ret.op = "LatestUserSubmission" /\ ret.dbOk /\ ret.aid \in DOMAIN asgs
    /\ AttemptsOf(ret.aid, ret.uid) = {1, 2, 4}
    /\ asgs[ret.aid].submissions[Len(asgs[ret.aid].submissions)].attemptNumber # 4
    /\ ret.out.attempt = 4

\* C16: on every stored submission, and for every results value, a second
\* UpdateGrade(id, results) directly after the first returns what the first
\* returned and leaves the store as the first left it; likewise a second
\* UpdateError(id).
C16_CallbacksIdempotent ==
    \A sid \in DOMAIN subs :
        /\ \A results \in GradeInputs :
             LET once == UpdateGrade(subs, sid, results, TRUE)
             IN  UpdateGrade(once.col, sid, results, TRUE) = once
        /\ LET once == UpdateError(subs, sid, TRUE)
           IN  UpdateError(once.col, sid, TRUE) = once

\* UpdateGrade has stored results on a record that UpdateError had flagged
C16_Witness ==
    /\ ret.op = "UpdateGrade" /\ ret.err = NoErr
    /\ ret.sid \in DOMAIN subs
    /\ subs[ret.sid].results.items # <<>>
    /\ subs[ret.sid].errorTesting

\* C17: a DeleteByAssignmentID(aid) that returns no error leaves no record
\* with that assignmentID in the store, and leaves every record of another
\* assignment stored and unchanged.
C17_DeleteByAssignmentFrame ==
    [][ (ret'.op = "DeleteByAssignmentID" /\ ret'.err = NoErr)
            => /\ \A s \in DOMAIN subs' : subs'[s].assignmentID # ret'.aid
               /\ \A s \in DOMAIN subs :
                    subs[s].assignmentID # ret'.aid
                        => s \in DOMAIN subs' /\ subs'[s] = subs[s]
      ]_vars

\* the submissions of an assignment with a roster are deleted and those of
\* another assignment are stored
C17_Witness ==
    /\ ret.op = "DeleteByAssignmentID" /\ ret.err = NoErr
    /\ ret.aid \in DOMAIN asgs
    /\ asgs[ret.aid].submissions # <<>>
    /\ subs # <<>>

\* C18: an assignment Update leaves the identifier, the supportingFiles
\* reference and the roster of every assignment as they were, leaves every
\* assignment other than the one with the supplied id unchanged, and adds or
\* removes no assignment and no submission, whatever the supplied record
\* carries.
C18_UpdateFrame ==
    [][ ret'.op = "Update"
            => /\ subs' = subs
               /\ DOMAIN asgs' = DOMAIN asgs
               /\ \A a \in DOMAIN asgs :
                    /\ a # ret'.aid => asgs'[a] = asgs[a]
                    /\ asgs'[a].id = asgs[a].id
                    /\ asgs'[a].supportingFiles = asgs[a].supportingFiles
                    /\ asgs'[a].submissions = asgs[a].submissions
      ]_vars

\* an assignment with a roster has been updated (published) by a record that
\* carries no roster and another supportingFiles reference
C18_Witness ==
    /\ ret.op = "Update" /\ ret.err = NoErr
    /\ ret.aid \in DOMAIN asgs
    /\ asgs[ret.aid].published
    /\ asgs[ret.aid].submissions # <<>>
    /\ asgs[ret.aid].supportingFiles # 0

\* C19: on a store that answers, Delete of an id that is not stored returns
\* no error and leaves the store unchanged, and for every id a second Delete
\* directly after the first returns what the first returned and leaves the
\* store as the first left it.
C19_DeleteIdempotent ==
    \A sid \in SubIds :
        LET once == Delete(subs, sid, TRUE) IN
        /\ sid \notin DOMAIN subs => once = [col |-> subs, err |-> NoErr]
        /\ once.err = NoErr
        /\ Delete(once.col, sid, TRUE) = once

\* Delete has returned no error for an id that was never inserted, with
\* another submission stored
C19_Witness ==
    /\ ret.op = "Delete" /\ ret.err = NoErr
    /\ ret.sid >= nextSid
    /\ subs # <<>>

\* C20: no step takes a stored submission from inProgress = false back to
\* inProgress = true, and a record with inProgress = true appears in the
\* store only by the insert of the Submit call that owns its id.
C20_TerminalAbsorbing ==
    [][ /\ \A sid \in DOMAIN subs \cap DOMAIN subs' :
             ~subs[sid].inProgress => ~subs'[sid].inProgress
        /\ \A sid \in DOMAIN subs' \ DOMAIN subs :
             subs'[sid].inProgress
                => \E p \in Procs : /\ pc[p] = "submit" /\ pc'[p] = "inserted"
                                    /\ loc[p].sid = sid
      ]_vars

\* UpdateError has followed UpdateGrade on a stored record, which is not in
\* progress
C20_Witness ==
    /\ ret.op = "UpdateError" /\ ret.err = NoErr
    /\ ret.after = ret.sid
    /\ ret.sid \in DOMAIN subs
    /\ ~subs[ret.sid].inProgress

\* C21: a grading callback (UpdateGrade or UpdateError) for an id that is not
\* stored leaves the submission store as it was, and returns no error when
\* the store answers.
C21_AbsentCallbackCreatesNothing ==
    [][ (ret'.op \in {"UpdateGrade", "UpdateError"} /\ ret'.sid \notin DOMAIN subs)
            => /\ subs' = subs
               /\ ret'.dbOk => ret'.err = NoErr
      ]_vars

\* a record was stored; UpdateGrade with results has returned no error for
\* an id that was handed to a Submit and is stored no longer, another
\* submission being stored
C21_Witness ==
    /\ ret.op = "UpdateGrade" /\ ret.dbOk /\ ret.err = NoErr
    /\ ret.sid < nextSid
    /\ ret.sid \notin DOMAIN subs
    /\ subs # <<>>

\* C22: a request goes to the grading service only for a submission whose
\* record is stored, and at most one per submission id; a Submit whose
\* insert fails returns ErrorDatabaseFailedCreate with the store and the
\* requests sent as they were, and nothing is stored, deleted or sent for it
\* until it has returned to its caller.
C22_ServiceContactedOnlyAfterInsert ==
    [][ /\ \A s \in SubIds :
             sent'[s] # sent[s]
                => /\ sent[s] = 0 /\ sent'[s] = 1
                   /\ s \in DOMAIN subs
                   /\ subs[s].inProgress
        /\ \A p \in Procs :
             (pc[p] = "submit" /\ pc'[p] # "submit" /\ loc[p].sid \notin DOMAIN subs')
                => /\ pc'[p] = "returned"
                   /\ loc'[p].err = "ErrorDatabaseFailedCreate"
                   /\ subs' = subs
                   /\ sent' = sent
        /\ \A p \in Procs :
             (pc[p] = "returned" /\ loc[p].err = "ErrorDatabaseFailedCreate")
                => /\ subs' = subs
                   /\ sent' = sent
                   /\ sent[loc[p].sid] = 0
                   /\ loc[p].sid \notin DOMAIN subs
      ]_vars

\* a Submit has returned ErrorDatabaseFailedCreate after an earlier Submit
\* sent its request, whose record is stored
C22_Witness ==
    \E p \in Procs :
        /\ pc[p] = "returned"
        /\ loc[p].err = "ErrorDatabaseFailedCreate"
        /\ \E s \in DOMAIN subs : sent[s] = 1

====
